---- MODULE Spec2Model ----
(***************************************************************************)
(* Ownership, move, clone and scope-based drop, as exercised by the        *)
(* functions of ownership/src/main.rs.                                     *)
(*                                                                         *)
(* The state is the one the tutorial narrates: the bindings of a function  *)
(* body (each is valid, moved-from, or out of scope), the stack of lexical *)
(* scopes, the heap values the String bindings own, and the order in which *)
(* drop is called.  One action per statement form that occurs in the file; *)
(* the operands are chosen nondeterministically among the bindings in      *)
(* scope, so every function of the file is one behaviour of the model.     *)
(***************************************************************************)
EXTENDS Integers, Sequences, FiniteSets

\* ---- bounds ----
MaxBindings == 4   \* bindings ever declared in one behaviour
MaxDepth    == 2   \* nesting depth of scopes (function body = 1)
MaxErrors   == 1   \* rejected uses recorded in one behaviour

VARIABLES
    bindings,   \* sequence of Binding records, indexed by declaration order
    scopes,     \* stack of scopes; each is the sequence of binding ids it declared
    releases,   \* binding ids for which drop was called, in call order
    errors,     \* binding ids whose use the compiler rejected, in order
    nvals,      \* number of heap values allocated so far
    last        \* the statement just processed

vars == <<bindings, scopes, releases, errors, nvals, last>>

\* ---- helpers ----
Range(s) == {s[i] : i \in 1..Len(s)}

Ids == 1..Len(bindings)

\* A binding: its type's kind, its validity, and the heap value it was
\* given (0 for stack-only data).
NewBinding(k, v) == [kind |-> k, state |-> "Live", val |-> v]

\* Every binding of every open scope is nameable (inner blocks see outer ones).
Visible == UNION {Range(scopes[i]) : i \in 1..Len(scopes)}

Top == scopes[Len(scopes)]

PushTop(ids) == [scopes EXCEPT ![Len(scopes)] = @ \o ids]

Stmt(o, s, d, f) == [op |-> o, src |-> s, dst |-> d, frame |-> f]

\* ---- the move-or-copy rule (let y = x; passing x by value) ----
AfterLetAlwaysMoves(b) == [b EXCEPT !.state = "Moved"]

\* String: the source is no longer valid.  Integer: trivially copied.
AfterLet(b) ==
    IF b.kind = "MoveOnly" THEN [b EXCEPT !.state = "Moved"] ELSE b

\* the heap value the receiving binding owns
Received(b) == IF b.kind = "MoveOnly" THEN b.val ELSE 0

\* ---- clone ----
AfterCloneMoves(b) == [b EXCEPT !.state = "Moved"]

\* the source of s1.clone() stays valid
AfterClone(b) == b

\* the heap data does get copied: the clone owns a value of its own
ClonedVal(b, fresh) == IF b.kind = "MoveOnly" THEN fresh ELSE 0

\* ---- a use the compiler rejects ----
AfterRejectedUseRevives(b) == [b EXCEPT !.state = "Live"]

\* s1 is no longer valid after the move, and stays so
AfterRejectedUse(b) == b

\* ---- scope exit ----
NeedsDropAnyKind(b) == b.state = "Live"

NeedsDropThoughMoved(b) == b.kind = "MoveOnly" /\ b.state # "Dropped"

\* drop is called for a String that is still owned here; nothing special
\* happens for an integer, nor for a binding whose value was moved
NeedsDrop(b) == b.state = "Live" /\ b.kind = "MoveOnly"

RECURSIVE DropPlanForward(_, _)
DropPlanForward(frame, bs) ==
    IF frame = <<>> THEN <<>>
    ELSE IF NeedsDrop(bs[Head(frame)])
         THEN <<Head(frame)>> \o DropPlanForward(Tail(frame), bs)
         ELSE DropPlanForward(Tail(frame), bs)

\* the bindings of a closing scope go out of scope last-declared first
RECURSIVE DropPlan(_, _)
DropPlan(frame, bs) ==
    IF frame = <<>> THEN <<>>
    ELSE LET b    == frame[Len(frame)]
             rest == SubSeq(frame, 1, Len(frame) - 1)
         IN IF NeedsDrop(bs[b])
            THEN <<b>> \o DropPlan(rest, bs)
            ELSE DropPlan(rest, bs)

\* a binding whose scope is over is no longer valid; a moved one stays moved
AfterScopeExit(b) ==
    IF b.state = "Live" THEN [b EXCEPT !.state = "Dropped"] ELSE b

\* ---- initial state: a function body has just been entered ----
Init ==
    /\ bindings = <<>>
    /\ scopes = << <<>> >>
    /\ releases = <<>>
    /\ errors = <<>>
    /\ nvals = 0
    /\ last = Stmt("enter", 0, 0, <<>>)

Room(n) == Len(scopes) > 0 /\ Len(bindings) + n <= MaxBindings

\* let s = String::from("hello");
DeclareString ==
    /\ Room(1)
    /\ bindings' = Append(bindings, NewBinding("MoveOnly", nvals + 1))
    /\ scopes' = PushTop(<<Len(bindings) + 1>>)
    /\ nvals' = nvals + 1
    /\ last' = Stmt("new", 0, Len(bindings) + 1, <<>>)
    /\ UNCHANGED <<releases, errors>>

\* let x = 5;
DeclareInteger ==
    /\ Room(1)
    /\ bindings' = Append(bindings, NewBinding("Copyable", 0))
    /\ scopes' = PushTop(<<Len(bindings) + 1>>)
    /\ last' = Stmt("new", 0, Len(bindings) + 1, <<>>)
    /\ UNCHANGED <<releases, errors, nvals>>

\* let x = y;
LetFrom(y) ==
    /\ Room(1)
    /\ y \in Visible
    /\ bindings[y].state = "Live"
    /\ bindings' = Append([bindings EXCEPT ![y] = AfterLet(@)],
                          NewBinding(bindings[y].kind, Received(bindings[y])))
    /\ scopes' = PushTop(<<Len(bindings) + 1>>)
    /\ last' = Stmt("let", y, Len(bindings) + 1, <<>>)
    /\ UNCHANGED <<releases, errors, nvals>>

\* let x = y.clone();
LetClone(y) ==
    /\ Room(1)
    /\ y \in Visible
    /\ bindings[y].state = "Live"
    /\ bindings' = Append([bindings EXCEPT ![y] = AfterClone(@)],
                          NewBinding(bindings[y].kind,
                                     ClonedVal(bindings[y], nvals + 1)))
    /\ scopes' = PushTop(<<Len(bindings) + 1>>)
    /\ nvals' = IF bindings[y].kind = "MoveOnly" THEN nvals + 1 ELSE nvals
    /\ last' = Stmt("clone", y, Len(bindings) + 1, <<>>)
    /\ UNCHANGED <<releases, errors>>

\* println!("{y}");
Read(y) ==
    /\ Len(scopes) > 0
    /\ y \in Visible
    /\ bindings[y].state = "Live"
    /\ last' = Stmt("read", y, 0, <<>>)
    /\ UNCHANGED <<bindings, scopes, releases, errors, nvals>>

\* takes_ownership(y); / make_copy(y);
\* The parameter comes into scope in the callee, is printed, and goes out of
\* scope when the callee returns: drop is called for a String, nothing
\* special happens for an integer.
CallByValue(y) ==
    /\ Room(1)
    /\ y \in Visible
    /\ bindings[y].state = "Live"
    /\ LET p     == Len(bindings) + 1
           param == NewBinding(bindings[y].kind, Received(bindings[y]))
           bs    == Append([bindings EXCEPT ![y] = AfterLet(@)], param)
       IN /\ bindings' = [bs EXCEPT ![p] = AfterScopeExit(@)]
          /\ releases' = releases \o DropPlan(<<p>>, bs)
          /\ last' = Stmt("call", y, p, <<p>>)
    /\ UNCHANGED <<scopes, errors, nvals>>

\* let x = takes_and_gives_back(y);
\* y moves into the parameter a_string, which is returned and moves out
\* into x.
CallAndReturn(y) ==
    /\ Room(2)
    /\ y \in Visible
    /\ bindings[y].state = "Live"
    /\ bindings[y].kind = "MoveOnly"
    /\ LET p     == Len(bindings) + 1
           x     == Len(bindings) + 2
           param == NewBinding("MoveOnly", Received(bindings[y]))
           bs    == Append([bindings EXCEPT ![y] = AfterLet(@)], param)
           bs2   == Append([bs EXCEPT ![p] = AfterLet(@)],
                           NewBinding("MoveOnly", Received(bs[p])))
       IN /\ bindings' = [i \in 1..Len(bs2) |->
                            IF i = p THEN AfterScopeExit(bs2[i]) ELSE bs2[i]]
          /\ releases' = releases \o DropPlan(<<p>>, bs2)
          /\ scopes' = PushTop(<<x>>)
          /\ last' = Stmt("callret", y, x, <<p>>)
    /\ UNCHANGED <<errors, nvals>>

\* let x = gives_ownership();
\* some_string is created in the callee, returned, and moves out into x.
GivesOwnership ==
    /\ Room(2)
    /\ LET p   == Len(bindings) + 1
           x   == Len(bindings) + 2
           bs  == Append(bindings, NewBinding("MoveOnly", nvals + 1))
           bs2 == Append([bs EXCEPT ![p] = AfterLet(@)],
                         NewBinding("MoveOnly", Received(bs[p])))
       IN /\ bindings' = [i \in 1..Len(bs2) |->
                            IF i = p THEN AfterScopeExit(bs2[i]) ELSE bs2[i]]
          /\ releases' = releases \o DropPlan(<<p>>, bs2)
          /\ scopes' = PushTop(<<x>>)
          /\ last' = Stmt("gives", 0, x, <<p>>)
    /\ nvals' = nvals + 1
    /\ UNCHANGED errors

\* a use (read, assignment, argument) of a binding whose value was moved:
\* the compiler rejects it
UseAfterMove(y) ==
    /\ Len(scopes) > 0
    /\ Len(errors) < MaxErrors
    /\ y \in Visible
    /\ bindings[y].state # "Live"
    /\ bindings' = [bindings EXCEPT ![y] = AfterRejectedUse(@)]
    /\ errors' = Append(errors, y)
    /\ last' = Stmt("rejected", y, 0, <<>>)
    /\ UNCHANGED <<scopes, releases, nvals>>

\* {
BlockEnter ==
    /\ Len(scopes) > 0
    /\ Len(scopes) < MaxDepth
    /\ scopes' = Append(scopes, <<>>)
    /\ last' = Stmt("enter", 0, 0, <<>>)
    /\ UNCHANGED <<bindings, releases, errors, nvals>>

\* }  (of a block, or of the function body)
BlockExit ==
    /\ Len(scopes) > 0
    /\ LET frame == Top
       IN /\ bindings' = [i \in 1..Len(bindings) |->
                            IF i \in Range(frame) THEN AfterScopeExit(bindings[i])
                            ELSE bindings[i]]
          /\ releases' = releases \o DropPlan(frame, bindings)
          /\ scopes' = SubSeq(scopes, 1, Len(scopes) - 1)
          /\ last' = Stmt("exit", 0, 0, frame)
    /\ UNCHANGED <<errors, nvals>>

Next ==
    \/ DeclareString
    \/ DeclareInteger
    \/ \E y \in Ids : LetFrom(y)
    \/ \E y \in Ids : LetClone(y)
    \/ \E y \in Ids : Read(y)
    \/ \E y \in Ids : CallByValue(y)
    \/ \E y \in Ids : CallAndReturn(y)
    \/ GivesOwnership
    \/ \E y \in Ids : UseAfterMove(y)
    \/ BlockEnter
    \/ BlockExit

Spec == Init /\ [][Next]_vars

TypeOK ==
    /\ \A b \in Ids :
          /\ bindings[b].kind \in {"Copyable", "MoveOnly"}
          /\ bindings[b].state \in {"Live", "Moved", "Dropped"}
          /\ bindings[b].val \in 0..nvals
    /\ Len(scopes) <= MaxDepth
    /\ Range(releases) \subseteq Ids
    /\ Range(errors) \subseteq Ids

\* ---- properties ----
CountIn(b, s) == Cardinality({i \in 1..Len(s) : s[i] = b})

IsLive(b) == bindings[b].state = "Live"

IsString(b) == bindings[b].kind = "MoveOnly"

IsInteger(b) == bindings[b].kind = "Copyable"

\* C2: a Copyable binding is never moved from: right after `let x = y` or
\* after passing y by value, y is still valid and x (or the parameter) is a
\* Copyable binding too, for which drop is not called; no Copyable binding is
\* ever in the moved state, and no rejected use ever names a Copyable
\* binding, however many reads follow.
CopyNeverFlagged ==
    /\ \A b \in Ids : IsInteger(b) => bindings[b].state # "Moved"
    /\ \A i \in 1..Len(errors) : ~IsInteger(errors[i])
    /\ (last.op \in {"let", "call"} /\ IsInteger(last.src))
          => /\ IsLive(last.src)
             /\ IsInteger(last.dst)
             /\ last.dst \notin Range(releases)

\* x = 5 was just passed to make_copy and is still valid, next to a later
\* integer binding of the same scope that is valid too (let y = x)
CopyLiveAfterCall ==
    /\ last.op = "call"
    /\ IsInteger(last.src) /\ IsLive(last.src)
    /\ errors = <<>>
    /\ \E x \in Range(Top) :
          /\ x > last.src
          /\ last.src \in Range(Top)
          /\ IsInteger(x) /\ IsLive(x)

\* C3 (state part): right after `let x = y.clone()` both y and x are valid,
\* x is a binding of the current scope with y's kind, and for a String x
\* owns a heap value that no other binding was ever given.
CloneIsSeparateAndLive ==
    last.op = "clone" =>
        /\ IsLive(last.src)
        /\ IsLive(last.dst)
        /\ last.dst \in Range(Top)
        /\ bindings[last.dst].kind = bindings[last.src].kind
        /\ IsString(last.dst) =>
              \A o \in Ids \ {last.dst} : bindings[o].val # bindings[last.dst].val

\* C3 (step part): a statement that uses one binding (let, clone, call,
\* read, rejected use) leaves every other existing binding, in particular a
\* clone or the source of a clone, exactly as it was.
UseTouchesOnlyItsOperand ==
    last'.op \in {"let", "clone", "call", "callret", "read", "rejected"} =>
        \A b \in Ids \ {last'.src} : bindings'[b] = bindings[b]

\* C3: clone leaves the source Live and creates a separate Live binding of
\* the same kind; the two are independent afterwards.
CloneIndependent ==
    /\ []CloneIsSeparateAndLive
    /\ [][UseTouchesOnlyItsOperand]_vars

\* a String was cloned: both are valid, each owning its own value
CloneOfStringBothLive ==
    /\ last.op = "clone"
    /\ errors = <<>>
    /\ IsString(last.src) /\ IsString(last.dst)
    /\ IsLive(last.src) /\ IsLive(last.dst)
    /\ bindings[last.dst].val # bindings[last.src].val

\* C4 (state part): drop has been called exactly once for a String binding
\* that went out of scope while it owned its value, and never for any
\* other binding (an integer, a moved-from String, a binding still in scope).
ReleasedExactlyTheDroppedStrings ==
    \A b \in Ids :
        CountIn(b, releases) =
            IF IsString(b) /\ bindings[b].state = "Dropped" THEN 1 ELSE 0

\* C4 (step part): when a scope closes, every String of that scope that is
\* still valid has drop called for it, once, in that step; no integer has.
ExitReleasesLiveStrings ==
    Len(scopes') < Len(scopes) =>
        \A b \in Range(Top) :
            CountIn(b, releases') - CountIn(b, releases) =
                IF IsString(b) /\ IsLive(b) THEN 1 ELSE 0

\* C4: at most one release per binding; exactly one for every MoveOnly
\* binding that is Live when its scope exits; none for Copyable bindings.
AtMostOneRelease ==
    /\ []ReleasedExactlyTheDroppedStrings
    /\ [][ExitReleasesLiveStrings]_vars

\* a scope with a String and an integer closed: one release, for the String
ScopeWithStringAndIntegerExited ==
    /\ last.op = "exit"
    /\ \E s, n \in Range(last.frame) :
          /\ IsString(s) /\ bindings[s].state = "Dropped"
          /\ IsInteger(n) /\ bindings[n].state = "Dropped"
          /\ CountIn(s, releases) = 1
          /\ CountIn(n, releases) = 0

\* the bindings of a scope for which drop was called when it closed
DroppedOf(frame) ==
    SelectSeq(frame, LAMBDA b : IsString(b) /\ bindings[b].state = "Dropped")

\* C5: the releases of one scope exit are the scope's released bindings in
\* the reverse of their declaration order, at the end of the drop log.
DropsInReverseOrder ==
    last.op = "exit" =>
        LET d == DroppedOf(last.frame)
            n == Len(d)
            m == Len(releases)
        IN /\ m >= n
           /\ \A i \in 1..n : releases[m - n + i] = d[n + 1 - i]

\* a, b, c declared in one scope, all Strings, still valid at the exit:
\* the plan is [c, b, a]
ThreeStringsDroppedCBA ==
    /\ last.op = "exit"
    /\ Len(last.frame) = 3
    /\ \A i \in 1..3 : IsString(last.frame[i])
    /\ releases = <<last.frame[3], last.frame[2], last.frame[1]>>
    /\ last.frame[1] < last.frame[2] /\ last.frame[2] < last.frame[3]

\* C9 (step): in one step a binding's state changes only from Live (to
\* Moved or to Dropped), and its kind never changes.
StateChangesOnlyFromLive ==
    \A b \in Ids :
        /\ bindings'[b].state # bindings[b].state => bindings[b].state = "Live"
        /\ bindings'[b].kind = bindings[b].kind

\* C9: a binding's state changes only Live -> Moved or Live -> Dropped; a
\* Moved or Dropped binding keeps its state for ever, also across a rejected
\* use of it.
MovedAndDroppedAbsorbing == [][StateChangesOnlyFromLive]_vars

\* a use of a moved binding was rejected, the function then ended, and the
\* binding is still Moved
StillMovedAfterRejectedUse ==
    /\ errors # <<>>
    /\ scopes = <<>>
    /\ last.op = "exit"
    /\ bindings[errors[1]].state = "Moved"
    /\ errors[1] \in Range(last.frame)

\* the String binding's value was handed on (by let, by-value call, or
\* return) to a binding declared later
MovedFrom(b) ==
    /\ IsString(b)
    /\ \E x \in Ids : x > b /\ bindings[x].val = bindings[b].val

\* C10: drop is never called for a binding whose value was moved away, so
\* never for both a moved-from binding and the binding that received its
\* value; no heap value is released twice.
MovedNeverReleased ==
    /\ \A b \in Ids : (bindings[b].state = "Moved" \/ MovedFrom(b))
                          => b \notin Range(releases)
    /\ \A i, j \in 1..Len(releases) :
          i # j => bindings[releases[i]].val # bindings[releases[j]].val

\* s1 moved to s2, a use of s1 was rejected, the scope closed: drop was
\* called for s2 and not for s1
ReceiverReleasedAfterRejectedUse ==
    /\ last.op = "exit"
    /\ errors # <<>>
    /\ errors[1] \in Range(last.frame)
    /\ errors[1] \notin Range(releases)
    /\ \E x \in Range(releases) :
          /\ x > errors[1]
          /\ bindings[x].val = bindings[errors[1]].val
====
